---- MODULE Spec2Model ----
(***************************************************************************)
(* Change tracking of telesync pages (py/telesync/core.py): Ref            *)
(* addressing, the per-page mutation buffer, the diff protocol of          *)
(* PageBase/Page/AsyncPage and the Data descriptor encoding.               *)
(*                                                                         *)
(* Python values are tagged records: the field t is the Python type, the   *)
(* other fields are the object's attributes.  A Python str is a sequence   *)
(* of one-character strings, so that `' ' in key`, string concatenation    *)
(* and str(int) are computed and not assumed.  A dict is a sequence of     *)
(* <<key, value>> pairs with distinct keys, in insertion order.            *)
(***************************************************************************)
EXTENDS Integers, Sequences, FiniteSets, TLC

(***************************************************************************)
(* Bounds of the model.                                                    *)
(***************************************************************************)
MaxOps == 3       \* mutations tracked in a behaviour of Spec
MaxWideOps == 1   \* mutations tracked in a behaviour of SpecWide
MaxRefOps == 1    \* mutations tracked in a behaviour of SpecRef
MaxAdds == 2      \* mutations tracked in a behaviour of SpecAdd
MaxProps == 2     \* properties of the card passed to add in SpecAdd
MaxKeyOps == 1    \* mutations tracked in a behaviour of SpecKeys
MaxSize == 2      \* largest |size| of a Data in SpecData
MaxDepth == 1     \* navigation steps from page[c] to the receiver of a call in SpecPath, SpecNav
MaxPathOps == 1   \* mutations tracked in a behaviour of SpecPath
MaxNavOps == 1    \* mutations tracked in a behaviour of SpecNav
MaxTwoOps == 2    \* mutations tracked in a behaviour of SpecTwo, over both pages
MaxAsyncOps == 3  \* mutations tracked in a behaviour of SpecAsync
MaxEncOps == 2    \* mutations tracked in a behaviour of SpecEnc

----------------------------------------------------------------------------
(***************************************************************************)
(* Python values.                                                          *)
(***************************************************************************)
PyNone == [t |-> "NoneType"]
PyBool(b) == [t |-> "bool", v |-> b]
PyInt(n) == [t |-> "int", v |-> n]
PyFloat(x) == [t |-> "float", v |-> x]   \* x is the repr, as a str: 1.5, nan
PyStr(s) == [t |-> "str", v |-> s]
PyList(xs) == [t |-> "list", v |-> xs]
PyDict(kvs) == [t |-> "dict", v |-> kvs]
\* an object with a callable dump attribute; d is what dump() returns
PyDumpable(d) == [t |-> "dumpable", v |-> d]
\* a plain object(): no dump attribute, not JSON serializable
PyObject == [t |-> "object"]
\* a dict object owned by the caller, held by reference
PyDictRef(id) == [t |-> "dictref", v |-> id]

\* src: _key_sep
_key_sep == <<" ">>

\* src: _is_int (bool is a subclass of int)
_is_int(x) == x.t \in {"int", "bool"}

\* src: _is_str
_is_str(x) == x.t = "str"

\* src: _is_list
_is_list(x) == x.t = "list"

\* src: _is_primitive
_is_primitive(x) == x.t \in {"NoneType", "bool", "str", "int", "float"}

\* src: _are_primitives
_are_primitives(xs) ==
    IF xs = PyNone THEN TRUE
    ELSE IF ~_is_list(xs) THEN FALSE
    ELSE \A i \in 1..Len(xs.v) : _is_primitive(xs.v[i])

\* `' ' in key` for a str
HasSpace(s) == \E i \in 1..Len(s) : s[i] = " "

\* _guard_key without the `' ' in key` test
_guard_key_nospace(key) == IF ~_is_str(key) /\ ~_is_int(key) THEN "KeyError" ELSE "none"

\* src: _guard_key; the exception raised, "none" when the key passes
_guard_key(key) ==
    IF _is_str(key)
    THEN IF HasSpace(key.v) THEN "KeyError" ELSE "none"
    ELSE IF ~_is_int(key) THEN "KeyError" ELSE "none"

----------------------------------------------------------------------------
(***************************************************************************)
(* str(), truthiness, Data, _dump.                                         *)
(***************************************************************************)
DigitChar(d) ==
    CASE d = 0 -> "0" [] d = 1 -> "1" [] d = 2 -> "2" [] d = 3 -> "3"
      [] d = 4 -> "4" [] d = 5 -> "5" [] d = 6 -> "6" [] d = 7 -> "7"
      [] d = 8 -> "8" [] d = 9 -> "9"

RECURSIVE NatStr(_)
NatStr(n) == IF n < 10 THEN <<DigitChar(n)>> ELSE NatStr(n \div 10) \o <<DigitChar(n % 10)>>

\* str(n) for an int: decimal, with a sign
IntStr(n) == IF n < 0 THEN <<"-">> \o NatStr(-n) ELSE NatStr(n)

\* str(k) as used on keys (src: _set_op, Ref.__getitem__)
str(k) ==
    CASE k.t = "str" -> k.v
      [] k.t = "int" -> IntStr(k.v)
      [] k.t = "bool" -> IF k.v THEN <<"T", "r", "u", "e">> ELSE <<"F", "a", "l", "s", "e">>
      [] k.t = "NoneType" -> <<"N", "o", "n", "e">>
      [] OTHER -> <<"?">>

\* Python truthiness of `if d:` for the values a Data holds as data
Truthy(x) ==
    CASE x.t = "NoneType" -> FALSE
      [] x.t \in {"list", "dict", "str"} -> Len(x.v) > 0
      [] x.t = "bool" -> x.v
      [] x.t = "int" -> x.v # 0
      [] OTHER -> TRUE

\* src: class Data (fields, size, data)
Data(fields, size, data) == [t |-> "Data", fields |-> fields, size |-> size, data |-> data]

\* dict(a=x) and dict(a=x, b=y)
Dict1(a, x) == PyDict(<< <<a, x>> >>)
Dict2(a, x, b, y) == PyDict(<< <<a, x>>, <<b, y>> >>)

\* Data.dump giving the circular buffer the signed size
Data_dump_signed(self) ==
    LET f == self.fields
        d == self.data
        n == self.size
    IN  IF Truthy(d)
        THEN IF d.t = "dict"
             THEN Dict1(<<"m">>, Dict2(<<"f">>, f, <<"d">>, d))
             ELSE IF n < 0
                  THEN Dict1(<<"c">>, Dict2(<<"f">>, f, <<"d">>, d))
                  ELSE Dict1(<<"f">>, Dict2(<<"f">>, f, <<"d">>, d))
        ELSE IF n = 0
             THEN Dict1(<<"m">>, Dict1(<<"f">>, f))
             ELSE IF n < 0
                  THEN Dict1(<<"c">>, Dict2(<<"f">>, f, <<"n">>, PyInt(n)))
                  ELSE Dict1(<<"f">>, Dict2(<<"f">>, f, <<"n">>, PyInt(n)))

\* src: Data.dump
Data_dump(self) ==
    LET f == self.fields
        d == self.data
        n == self.size
    IN  IF Truthy(d)
        THEN IF d.t = "dict"
             THEN Dict1(<<"m">>, Dict2(<<"f">>, f, <<"d">>, d))
             ELSE IF n < 0
                  THEN Dict1(<<"c">>, Dict2(<<"f">>, f, <<"d">>, d))
                  ELSE Dict1(<<"f">>, Dict2(<<"f">>, f, <<"d">>, d))
        ELSE IF n = 0
             THEN Dict1(<<"m">>, Dict1(<<"f">>, f))
             ELSE IF n < 0
                  THEN Dict1(<<"c">>, Dict2(<<"f">>, f, <<"n">>, PyInt(-n)))
                  ELSE Dict1(<<"f">>, Dict2(<<"f">>, f, <<"n">>, PyInt(n)))

\* isinstance(x, Data)
IsData(x) == x.t = "Data"

\* src: _can_dump
_can_dump(x) == x.t \in {"Data", "dumpable"}

\* x.dump() for an object that has one
CallDump(x) == IF IsData(x) THEN Data_dump(x) ELSE x.v

\* src: _dump
RECURSIVE _dump(_)
_dump(xs) ==
    IF xs.t = "list"
    THEN PyList([i \in 1..Len(xs.v) |-> _dump(xs.v[i])])
    ELSE IF xs.t = "dict"
    THEN PyDict([i \in 1..Len(xs.v) |-> <<xs.v[i][1], _dump(xs.v[i][2])>>])
    ELSE IF _can_dump(xs)
    THEN CallDump(xs)
    ELSE xs

----------------------------------------------------------------------------
(***************************************************************************)
(* marshal: json.dumps(d, allow_nan=False, separators=(',', ':')).         *)
(* h is the heap of the caller's dict objects, read when the encoder       *)
(* reaches a dict held by reference.                                       *)
(***************************************************************************)
RECURSIVE JoinWith(_, _)
JoinWith(sep, ss) ==
    IF ss = <<>> THEN <<>>
    ELSE IF Len(ss) = 1 THEN ss[1]
    ELSE ss[1] \o sep \o JoinWith(sep, Tail(ss))

Quoted(s) == <<"\"">> \o s \o <<"\"">>

\* the first exception the encoder raises on x, "none" if it encodes
RECURSIVE JsonError(_, _)
RECURSIVE FirstError(_)
FirstError(es) ==
    IF es = <<>> THEN "none"
    ELSE IF Head(es) # "none" THEN Head(es) ELSE FirstError(Tail(es))

JsonError(x, h) ==
    CASE x.t \in {"NoneType", "bool", "int", "str"} -> "none"
      [] x.t = "float" -> IF x.v \in {<<"n", "a", "n">>, <<"i", "n", "f">>} THEN "ValueError" ELSE "none"
      [] x.t = "list" -> FirstError([i \in 1..Len(x.v) |-> JsonError(x.v[i], h)])
      [] x.t = "dict" -> FirstError([i \in 1..Len(x.v) |-> JsonError(x.v[i][2], h)])
      [] x.t = "dictref" -> FirstError([i \in 1..Len(h[x.v]) |-> JsonError(h[x.v][i][2], h)])
      [] OTHER -> "TypeError"

\* the JSON text of a value the encoder accepts
RECURSIVE JsonText(_, _)
JsonText(x, h) ==
    CASE x.t = "NoneType" -> <<"n", "u", "l", "l">>
      [] x.t = "bool" -> IF x.v THEN <<"t", "r", "u", "e">> ELSE <<"f", "a", "l", "s", "e">>
      [] x.t = "int" -> IntStr(x.v)
      [] x.t = "float" -> x.v
      [] x.t = "str" -> Quoted(x.v)
      [] x.t = "list" ->
            <<"[">> \o JoinWith(<<",">>, [i \in 1..Len(x.v) |-> JsonText(x.v[i], h)]) \o <<"]">>
      [] x.t = "dict" ->
            <<"{">> \o JoinWith(<<",">>, [i \in 1..Len(x.v) |->
                        Quoted(x.v[i][1]) \o <<":">> \o JsonText(x.v[i][2], h)]) \o <<"}">>
      [] x.t = "dictref" -> JsonText(PyDict(h[x.v]), h)

\* src: marshal; exc is the exception raised, v the str returned
marshal(d, h) ==
    IF JsonError(d, h) # "none"
    THEN [exc |-> JsonError(d, h), v |-> PyNone]
    ELSE [exc |-> "none", v |-> PyStr(JsonText(d, h))]

----------------------------------------------------------------------------
(***************************************************************************)
(* Dicts as ordered sequences of pairs.                                    *)
(***************************************************************************)
DictHas(d, k) == \E i \in 1..Len(d) : d[i][1] = k

DictGet(d, k) == d[CHOOSE i \in 1..Len(d) : d[i][1] = k][2]

\* del d[k]
DictDel(d, k) == SelectSeq(d, LAMBDA kv : kv[1] # k)

\* d[k] = v: an existing key keeps its position, a new key goes last
DictSet(d, k, v) ==
    IF DictHas(d, k)
    THEN [i \in 1..Len(d) |-> IF d[i][1] = k THEN <<k, v>> ELSE d[i]]
    ELSE Append(d, <<k, v>>)

\* a value with every dict held by reference replaced by its contents in h
RECURSIVE Deref(_, _)
Deref(x, h) ==
    CASE x.t = "dictref" -> Deref(PyDict(h[x.v]), h)
      [] x.t = "list" -> PyList([i \in 1..Len(x.v) |-> Deref(x.v[i], h)])
      [] x.t = "dict" -> PyDict([i \in 1..Len(x.v) |-> <<x.v[i][1], Deref(x.v[i][2], h)>>])
      [] OTHER -> x

----------------------------------------------------------------------------
(***************************************************************************)
(* State.                                                                  *)
(***************************************************************************)
VARIABLES
    pages,     \* the page objects: [kind, url, _changes]
    heap,      \* the caller's dict objects (cards passed to add by reference)
    ret,       \* outcome of the last call: [call, exc, v]
    sent,      \* transmissions handed to the transport, in order
    awaiting,  \* number of AsyncPage.save coroutines suspended in ws.send
    log,       \* history: per page, the operation each mutation call made
    diffs      \* history: per page, the diffs returned by _diff

vars == <<pages, heap, ret, sent, awaiting, log, diffs>>

\* src: Ref.__init__
Ref(page, key) == [t |-> "Ref", page |-> page, key |-> key]

IsRef(x) == x.t = "Ref"

Returned(call, v) == [call |-> call, exc |-> "none", v |-> v]

Raised(call, exc) == [call |-> call, exc |-> exc, v |-> PyNone]

PageIds == 1..Len(pages)

RECURSIVE SumLen(_)
SumLen(ss) == IF ss = <<>> THEN 0 ELSE Len(Head(ss)) + SumLen(Tail(ss))

\* mutations tracked so far, over all pages
TotalOps == SumLen(log)

\* src: PageBase.__init__
PageBase_init(kind, url) == [kind |-> kind, url |-> url, _changes |-> <<>>]

\* src: Site.__getitem__
Site_getitem(url) == PageBase_init("Page", url)

\* src: AsyncSite.__getitem__
AsyncSite_getitem(url) == PageBase_init("AsyncPage", url)

\* _track appending to one list shared by all the pages
_track_shared(ps, p, op) == [q \in 1..Len(ps) |-> [ps[q] EXCEPT !._changes = Append(@, op)]]

\* _track putting the operation at the front of the buffer
_track_front(ps, p, op) == [ps EXCEPT ![p]._changes = <<op>> \o @]

\* src: PageBase._track
_track(ps, p, op) == [ps EXCEPT ![p]._changes = Append(@, op)]

\* history of a mutation: the call, its argument as the caller passed it
\* (card, value or key) and the operation the call handed to _track
Logged(lg, p, call, arg, op, h) ==
    [lg EXCEPT ![p] = Append(@, [call |-> call, arg |-> arg, op |-> Deref(op, h)])]

----------------------------------------------------------------------------
(***************************************************************************)
(* PageBase.add, drop, __getitem__, __delitem__.                           *)
(***************************************************************************)
Dict3(a, x, b, y, c, z) == PyDict(<< <<a, x>>, <<b, y>>, <<c, z>> >>)

IsDict(x) == x.t \in {"dict", "dictref"}

\* props.items() of a dict held by value or by reference
Items(props, h) == IF props.t = "dictref" THEN h[props.v] ELSE props.v

\* the properties that hold a Data, in mapping order
DataItems(kvs) == SelectSeq(kvs, LAMBDA kv : IsData(kv[2]))

\* the list `data` with the indices counted from 1
AddData_from1(kvs) == [i \in 1..Len(DataItems(kvs)) |-> <<DataItems(kvs)[i][1], i>>]

\* src: PageBase.add, the list `data` of (k, len(bufs)) built by the first loop
AddData(kvs) == [i \in 1..Len(DataItems(kvs)) |-> <<DataItems(kvs)[i][1], i - 1>>]

\* src: PageBase.add, the list `bufs` built by the first loop
AddBufs(kvs) == [i \in 1..Len(DataItems(kvs)) |-> Data_dump(DataItems(kvs)[i][2])]

\* src: PageBase.add, second loop: del props[k]; props[f'~{k}'] = v
RECURSIVE AddRename(_, _)
AddRename(kvs, data) ==
    IF data = <<>> THEN kvs
    ELSE AddRename(DictSet(DictDel(kvs, Head(data)[1]), <<"~">> \o Head(data)[1], PyInt(Head(data)[2])),
                   Tail(data))

\* the operation of add leaving out d when the mapping is empty
AddOp_nod(key, d, bufs) ==
    IF Len(bufs) > 0
    THEN Dict3(<<"k">>, key, <<"d">>, d, <<"b">>, PyList(bufs))
    ELSE IF d.t = "dict" /\ d.v = <<>> THEN Dict1(<<"k">>, key)
    ELSE Dict2(<<"k">>, key, <<"d">>, d)

\* src: PageBase.add, the operation handed to _track; d is props itself
AddOp(key, d, bufs) ==
    IF Len(bufs) > 0
    THEN Dict3(<<"k">>, key, <<"d">>, d, <<"b">>, PyList(bufs))
    ELSE Dict2(<<"k">>, key, <<"d">>, d)

\* src: PageBase.add, `props` after the isinstance/_can_dump branches
AddProps(card) ==
    IF IsDict(card) THEN card
    ELSE IF _can_dump(card) THEN _dump(card)
    ELSE PyNone

\* src: PageBase.add, the checks before the scan; the exception raised
AddError(key, card) ==
    IF key = PyNone THEN "ValueError"
    ELSE IF ~_is_str(key) THEN "ValueError"
    ELSE IF ~IsDict(AddProps(card)) THEN "ValueError"
    ELSE "none"

\* src: PageBase.add (call = "add") and PageBase.__setitem__ (call = "__setitem__")
PageBase_add(p, key, card, call, cap) ==
    /\ p \in PageIds
    /\ IF AddError(key, card) # "none"
       THEN /\ ret' = Raised(call, AddError(key, card))
            /\ UNCHANGED <<pages, heap, sent, awaiting, log, diffs>>
       ELSE LET props == AddProps(card)
                kvs == AddRename(Items(props, heap), AddData(Items(props, heap)))
                h2 == IF props.t = "dictref" THEN [heap EXCEPT ![props.v] = kvs] ELSE heap
                d == IF props.t = "dictref" THEN props ELSE PyDict(kvs)
                op == AddOp(key, d, AddBufs(Items(props, heap)))
            IN  /\ TotalOps < cap
                /\ pages' = _track(pages, p, op)
                /\ heap' = h2
                /\ log' = Logged(log, p, call, Deref(card, heap), op, h2)
                /\ ret' = Returned(call, IF call = "add" THEN Ref(p, key.v) ELSE PyNone)
                /\ UNCHANGED <<sent, awaiting, diffs>>

\* src: PageBase.drop
PageBase_drop(p, cap) ==
    /\ p \in PageIds
    /\ TotalOps < cap
    /\ pages' = _track(pages, p, PyDict(<<>>))
    /\ log' = Logged(log, p, "drop", PyNone, PyDict(<<>>), heap)
    /\ ret' = Returned("drop", PyNone)
    /\ UNCHANGED <<heap, sent, awaiting, diffs>>

\* src: PageBase.__getitem__; the outcome of page[key]
PageGet(p, key) ==
    IF ~_is_str(key) THEN Raised("page[]", "ValueError")
    ELSE Returned("page[]", Ref(p, key.v))

PageBase_getitem(p, key) ==
    /\ p \in PageIds
    /\ ret' = PageGet(p, key)
    /\ UNCHANGED <<pages, heap, sent, awaiting, log, diffs>>

\* src: PageBase.__delitem__
PageBase_delitem(p, key, cap) ==
    /\ p \in PageIds
    /\ TotalOps < cap
    /\ pages' = _track(pages, p, Dict1(<<"k">>, key))
    /\ log' = Logged(log, p, "del page[]", key, Dict1(<<"k">>, key), heap)
    /\ ret' = Returned("del page[]", PyNone)
    /\ UNCHANGED <<heap, sent, awaiting, diffs>>

----------------------------------------------------------------------------
(***************************************************************************)
(* Ref.  A Ref is an immutable pair (page, key); the receiver of a call is *)
(* a Ref the caller has obtained from page[k].                             *)
(***************************************************************************)
\* src: Ref.__getattr__ (call = "getattr", key a str: no str() is applied)
\* and Ref.__getitem__ (call = "getitem"); the outcome of self.key / self[key]
RefGet(self, key, call) ==
    IF _guard_key(key) # "none" THEN Raised(call, _guard_key(key))
    ELSE Returned(call, Ref(self.page, self.key \o _key_sep \o (IF call = "getattr" THEN key.v ELSE str(key))))

\* navigation that leaves a Set operation of the visited path in the buffer
Ref_get_track(self, key, call) ==
    /\ call = "getattr" => _is_str(key)
    /\ ret' = RefGet(self, key, call)
    /\ pages' = _track(pages, self.page, Dict2(<<"k">>, PyStr(self.key), <<"v">>, PyNone))
    /\ UNCHANGED <<heap, sent, awaiting, log, diffs>>

\* the Refs that page[k] returns for the card keys CK
Roots(p, CK) == {PageGet(p, k).v : k \in {k \in CK : PageGet(p, k).exc = "none"}}

Ref_get(self, key, call) ==
    /\ call = "getattr" => _is_str(key)
    /\ ret' = RefGet(self, key, call)
    /\ UNCHANGED <<pages, heap, sent, awaiting, log, diffs>>

\* _set_op joining the path and the key without the separator
_set_op_nosep(o, k, v) ==
    IF _guard_key(k) # "none" THEN Raised("_set_op", _guard_key(k))
    ELSE Returned("_set_op", Dict2(<<"k">>, PyStr(o.key \o str(k)), <<"v">>, v))

\* src: _set_op; [exc, v]: the exception raised or the operation built
_set_op(o, k, v) ==
    IF _guard_key(k) # "none" THEN Raised("_set_op", _guard_key(k))
    ELSE LET kk == PyStr(o.key \o _key_sep \o str(k)) IN
         IF IsData(v)
         THEN Returned("_set_op", PyDict(DictSet(Data_dump(v).v, <<"k">>, kk)))
         ELSE Returned("_set_op", Dict2(<<"k">>, kk, <<"v">>, v))

\* the assignment without the isinstance(value, Data) test
SetOutcome_nodatatest(self, key, value) == _set_op(self, key, value)

\* src: Ref.__setattr__ / Ref.__setitem__ up to the call of _track:
\* [exc, v], the exception raised or the operation to track
SetOutcome(self, key, value) ==
    IF IsData(value) THEN Raised("set", "ValueError")
    ELSE _set_op(self, key, _dump(value))

\* the assignment tracking the operation before the key is validated
Ref_set_trackfirst(self, key, value, call, cap) ==
    /\ call = "setattr" => _is_str(key)
    /\ ~IsData(value)
    /\ TotalOps < cap
    /\ LET op == Dict2(<<"k">>, PyStr(self.key \o _key_sep \o str(key)), <<"v">>, _dump(value)) IN
       /\ pages' = _track(pages, self.page, op)
       /\ log' = Logged(log, self.page, call, value, op, heap)
       /\ ret' = IF _guard_key(key) # "none" THEN Raised(call, _guard_key(key))
                 ELSE Returned(call, PyNone)
       /\ UNCHANGED <<heap, sent, awaiting, diffs>>

\* src: Ref.__setattr__ (call = "setattr", key a str) and Ref.__setitem__ (call = "setitem")
Ref_set(self, key, value, call, cap) ==
    /\ call = "setattr" => _is_str(key)
    /\ LET op == SetOutcome(self, key, value) IN
       IF op.exc # "none"
       THEN /\ ret' = Raised(call, op.exc)
            /\ UNCHANGED <<pages, heap, sent, awaiting, log, diffs>>
       ELSE /\ TotalOps < cap
            /\ pages' = _track(pages, self.page, op.v)
            /\ log' = Logged(log, self.page, call, value, op.v, heap)
            /\ ret' = Returned(call, PyNone)
            /\ UNCHANGED <<heap, sent, awaiting, diffs>>

----------------------------------------------------------------------------
(***************************************************************************)
(* Diff extraction and save.                                               *)
(***************************************************************************)
\* _diff clearing the buffer before it marshals the operations
_diff_clearfirst(ps, p, h) ==
    IF Len(ps[p]._changes) = 0
    THEN [exc |-> "none", v |-> PyNone, pages |-> ps]
    ELSE LET d == marshal(Dict1(<<"d">>, PyList(ps[p]._changes)), h) IN
         [exc |-> d.exc, v |-> d.v, pages |-> [ps EXCEPT ![p]._changes = <<>>]]

\* _diff without `self._changes.clear()`
_diff_noclear(ps, p, h) ==
    IF Len(ps[p]._changes) = 0
    THEN [exc |-> "none", v |-> PyNone, pages |-> ps]
    ELSE LET d == marshal(Dict1(<<"d">>, PyList(ps[p]._changes)), h) IN
         [exc |-> d.exc, v |-> d.v, pages |-> ps]

\* _diff without the `len(self._changes) == 0` test
_diff_noempty(ps, p, h) ==
    LET d == marshal(Dict1(<<"d">>, PyList(ps[p]._changes)), h) IN
    IF d.exc # "none"
    THEN [exc |-> d.exc, v |-> PyNone, pages |-> ps]
    ELSE [exc |-> "none", v |-> d.v, pages |-> [ps EXCEPT ![p]._changes = <<>>]]

\* src: PageBase._diff; [exc, v, pages]: exception or return value, and the pages after
_diff(ps, p, h) ==
    IF Len(ps[p]._changes) = 0
    THEN [exc |-> "none", v |-> PyNone, pages |-> ps]
    ELSE LET d == marshal(Dict1(<<"d">>, PyList(ps[p]._changes)), h) IN
         IF d.exc # "none"
         THEN [exc |-> d.exc, v |-> PyNone, pages |-> ps]
         ELSE [exc |-> "none", v |-> d.v, pages |-> [ps EXCEPT ![p]._changes = <<>>]]

\* history of a returned diff: its text, how many operations had been logged
\* when it was made, and the index in sent of the transmission that carries
\* it (0 for a direct flush)
Flushed(df, p, r, tx) ==
    IF r.exc = "none" /\ r.v # PyNone
    THEN [df EXCEPT ![p] = Append(@, [text |-> r.v.v, upto |-> Len(log[p]), tx |-> tx])]
    ELSE df

\* a direct call of the diff extraction (flush)
Flush(p) ==
    /\ p \in PageIds
    /\ LET r == _diff(pages, p, heap) IN
       /\ pages' = r.pages
       /\ diffs' = Flushed(diffs, p, r, 0)
       /\ ret' = IF r.exc # "none" THEN Raised("flush", r.exc) ELSE Returned("flush", r.v)
    /\ UNCHANGED <<heap, sent, awaiting, log>>

\* src: _BasicAuthClient.patch, reached through Site._save: the request made
patch(url, data, status) == [via |-> "patch", url |-> url, data |-> data, status |-> status]

\* src: AsyncPage.save, the text handed to ws.send: f'* {self.url} {p}'
ws_send(url, p) == [via |-> "ws", url |-> url, data |-> <<"*", " ">> \o url \o <<" ">> \o p, status |-> 0]

\* Page.save putting the operations back when the request fails
Page_save_requeue(p, status) ==
    /\ p \in PageIds
    /\ pages[p].kind = "Page"
    /\ LET r == _diff(pages, p, heap) IN
       /\ pages' = IF status # 200 THEN pages ELSE r.pages
       /\ diffs' = Flushed(diffs, p, r, Len(sent) + 1)
       /\ IF r.exc # "none"
          THEN ret' = Raised("save", r.exc) /\ sent' = sent
          ELSE IF Truthy(r.v)
          THEN /\ sent' = Append(sent, patch(pages[p].url, r.v.v, status))
               /\ ret' = IF status # 200 THEN Raised("save", "ServiceError")
                         ELSE Returned("save", PyNone)
          ELSE ret' = Returned("save", PyNone) /\ sent' = sent
    /\ UNCHANGED <<heap, awaiting, log>>

\* src: Page.save; status is the status code of the response to the PATCH
Page_save(p, status) ==
    /\ p \in PageIds
    /\ pages[p].kind = "Page"
    /\ LET r == _diff(pages, p, heap) IN
       /\ pages' = r.pages
       /\ diffs' = Flushed(diffs, p, r, Len(sent) + 1)
       /\ IF r.exc # "none"
          THEN ret' = Raised("save", r.exc) /\ sent' = sent
          ELSE IF Truthy(r.v)
          THEN /\ sent' = Append(sent, patch(pages[p].url, r.v.v, status))
               /\ ret' = IF status # 200 THEN Raised("save", "ServiceError")
                         ELSE Returned("save", PyNone)
          ELSE ret' = Returned("save", PyNone) /\ sent' = sent
    /\ UNCHANGED <<heap, awaiting, log>>

\* the coroutine of AsyncPage.save, suspended in `await self._ws.send(...)`
Awaiting == [t |-> "awaiting"]

\* AsyncPage.save clearing the buffer only once the send has completed:
\* the operations stay in the buffer while the message is in flight
AsyncPage_save_clearlate(p) ==
    /\ p \in PageIds
    /\ pages[p].kind = "AsyncPage"
    /\ LET r == _diff(pages, p, heap) IN
       /\ pages' = pages
       /\ diffs' = Flushed(diffs, p, r, Len(sent) + 1)
       /\ IF r.exc # "none"
          THEN ret' = Raised("save", r.exc) /\ sent' = sent /\ awaiting' = awaiting
          ELSE IF Truthy(r.v)
          THEN /\ sent' = Append(sent, ws_send(pages[p].url, r.v.v))
               /\ awaiting' = awaiting + 1
               /\ ret' = Returned("save", Awaiting)
          ELSE ret' = Returned("save", PyNone) /\ sent' = sent /\ awaiting' = awaiting
    /\ UNCHANGED <<heap, log>>

\* src: AsyncPage.save up to the await of ws.send
AsyncPage_save(p) ==
    /\ p \in PageIds
    /\ pages[p].kind = "AsyncPage"
    /\ LET r == _diff(pages, p, heap) IN
       /\ pages' = r.pages
       /\ diffs' = Flushed(diffs, p, r, Len(sent) + 1)
       /\ IF r.exc # "none"
          THEN ret' = Raised("save", r.exc) /\ sent' = sent /\ awaiting' = awaiting
          ELSE IF Truthy(r.v)
          THEN /\ sent' = Append(sent, ws_send(pages[p].url, r.v.v))
               /\ awaiting' = awaiting + 1
               /\ ret' = Returned("save", Awaiting)
          ELSE ret' = Returned("save", PyNone) /\ sent' = sent /\ awaiting' = awaiting
    /\ UNCHANGED <<heap, log>>

\* src: AsyncPage.save, the await of ws.send completes and save returns
SendDone ==
    /\ awaiting > 0
    /\ awaiting' = awaiting - 1
    /\ ret' = Returned("send done", PyNone)
    /\ UNCHANGED <<pages, heap, sent, log, diffs>>

----------------------------------------------------------------------------
(***************************************************************************)
(* Inputs.                                                                 *)
(***************************************************************************)
Chr(c) == PyStr(<<c>>)

Fields == PyList(<<Chr("a"), Chr("b")>>)

NaN == PyFloat(<<"n", "a", "n">>)

Urls == {<<"/", "a">>, <<"/", "b">>}

SiteUrl == <<"/", "a">>

AsyncSiteUrl == <<"/", "b">>

\* the dict object the caller holds and passes to add by reference
HeapCard == << <<<<"x">>, Data(Fields, 3, PyNone)>> >>

\* inputs of Spec: card keys, navigation keys, values, cards
CardKeys == {Chr("c")}

NavKeys == {Chr("f")}

Values == {PyInt(5), PyObject}

Cards == {PyDictRef(1)}

\* status codes of the responses to a PATCH: success and a failure
Statuses == {200, 500}

\* one page, obtained from site[url] or from an AsyncSite
Init ==
    /\ pages \in {<<Site_getitem(SiteUrl)>>, <<AsyncSite_getitem(AsyncSiteUrl)>>}
    /\ heap = <<HeapCard>>
    /\ ret = Returned("init", PyNone)
    /\ sent = <<>>
    /\ awaiting = 0
    /\ log = <<<<>>>>
    /\ diffs = <<<<>>>>

\* Spec: the mutations, diff extraction and save of one page
Next ==
    \/ \E p \in PageIds, key \in CardKeys, card \in Cards : PageBase_add(p, key, card, "add", MaxOps)
    \/ \E p \in PageIds, key \in CardKeys : PageBase_delitem(p, key, MaxOps)
    \/ \E p \in PageIds : PageBase_drop(p, MaxOps)
    \/ \E p \in PageIds : \E self \in Roots(p, CardKeys), key \in NavKeys, value \in Values :
            Ref_set(self, key, value, "setattr", MaxOps)
    \/ \E p \in PageIds : Flush(p)
    \/ \E p \in PageIds, status \in Statuses : Page_save(p, status)
    \/ \E p \in PageIds : AsyncPage_save(p)
    \/ SendDone

Spec == Init /\ [][Next]_vars

(***************************************************************************)
(* SpecWide: every mutation call in both its forms, with valid and invalid *)
(* keys, values and cards.                                                 *)
(***************************************************************************)
SpaceKey == PyStr(<<"a", " ", "b">>)

WideCardKeys == {Chr("c"), PyNone}

WideNavKeys == {Chr("f"), SpaceKey, PyNone}

WideValues == {PyInt(5), Data(Fields, 3, PyNone)}

WideCards ==
    { PyDictRef(1), PyInt(5), PyDumpable(Dict1(<<"y">>, Data(Fields, 0, PyNone))),
      PyDumpable(PyInt(1)) }

NextWide ==
    \/ \E p \in PageIds, key \in WideCardKeys, card \in WideCards, call \in {"add", "__setitem__"} :
            PageBase_add(p, key, card, call, MaxWideOps)
    \/ \E p \in PageIds, key \in WideCardKeys : PageBase_delitem(p, key, MaxWideOps)
    \/ \E p \in PageIds : PageBase_drop(p, MaxWideOps)
    \/ \E p \in PageIds : \E self \in Roots(p, WideCardKeys), key \in WideNavKeys, value \in WideValues,
              call \in {"setattr", "setitem"} :
            Ref_set(self, key, value, call, MaxWideOps)
    \/ \E p \in PageIds : Flush(p)
    \/ \E p \in PageIds, status \in Statuses : Page_save(p, status)
    \/ \E p \in PageIds : AsyncPage_save(p)
    \/ SendDone

SpecWide == Init /\ [][NextWide]_vars

(***************************************************************************)
(* SpecRef: navigation and assignment through a Ref, over keys of every    *)
(* type and values of every kind.                                          *)
(***************************************************************************)
RefKeys == {Chr("f"), SpaceKey, PyStr(<<" ", "f">>), PyInt(12), PyNone}

RefValues ==
    { PyInt(5), NaN, PyObject, PyList(<<PyInt(1), Chr("s")>>),
      Dict1(<<"a">>, PyInt(1)), Data(Fields, 3, PyNone) }

NextRef ==
    \/ \E p \in PageIds, key \in WideCardKeys : PageBase_getitem(p, key)
    \/ \E p \in PageIds : \E self \in Roots(p, WideCardKeys), key \in RefKeys, call \in {"getattr", "getitem"} :
            Ref_get(self, key, call)
    \/ \E p \in PageIds : \E self \in Roots(p, WideCardKeys), key \in RefKeys, value \in RefValues,
              call \in {"setattr", "setitem"} :
            Ref_set(self, key, value, call, MaxRefOps)
    \/ \E p \in PageIds : Flush(p)

SpecRef == Init /\ [][NextRef]_vars

(***************************************************************************)
(* SpecAdd: add applied to a card drawn from every mapping of at most      *)
(* MaxProps properties; the card is a dict object of the caller.           *)
(***************************************************************************)
PropNames == {<<"x">>, <<"y">>, <<"~", "x">>}

PropValues == {PyInt(5), Data(Fields, 3, PyNone), Data(Fields, 0, PyNone)}

Distinct(kvs) == \A i, j \in 1..Len(kvs) : i # j => kvs[i][1] # kvs[j][1]

AddCards ==
    {PyDict(kvs) : kvs \in {s \in UNION {[1..n -> PropNames \X PropValues] : n \in 0..MaxProps} : Distinct(s)}}

InitAdd ==
    /\ pages = <<Site_getitem(SiteUrl)>>
    /\ heap \in {<<card.v>> : card \in AddCards}
    /\ ret = Returned("init", PyNone)
    /\ sent = <<>>
    /\ awaiting = 0
    /\ log = <<<<>>>>
    /\ diffs = <<<<>>>>

NextAdd ==
    \/ \E p \in PageIds, call \in {"add", "__setitem__"} :
            PageBase_add(p, Chr("c"), PyDictRef(1), call, MaxAdds)
    \/ \E p \in PageIds : Flush(p)

SpecAdd == InitAdd /\ [][NextAdd]_vars

TypeOK ==
    /\ \A p \in PageIds : pages[p].kind \in {"Page", "AsyncPage"} /\ pages[p].url \in Urls
    /\ Len(log) = Len(pages) /\ Len(diffs) = Len(pages)
    /\ awaiting \in 0..Len(sent)
    /\ ret.exc \in {"none", "ValueError", "KeyError", "TypeError", "ServiceError"}

----------------------------------------------------------------------------
(***************************************************************************)
(* Properties.  The operation list inside a diff is read off its text:     *)
(* JsonText is injective on operation lists, so a diff text equal to the   *)
(* text of a list of operations holds exactly that list, in that order.    *)
(***************************************************************************)
Buffer(p) == pages[p]._changes

\* the buffer with the dicts it references replaced by their contents
BufferOps(p) == [j \in 1..Len(Buffer(p)) |-> Deref(Buffer(p)[j], heap)]

DiffText(ops) == JsonText(Dict1(<<"d">>, PyList(ops)), heap)

\* number of operations logged on p before its i-th diff was started
From(p, i) == IF i = 1 THEN 0 ELSE diffs[p][i - 1].upto

\* the mutation calls made on p between its (i-1)-th and its i-th diff
Calls(p, i) == [j \in 1..(diffs[p][i].upto - From(p, i)) |-> log[p][From(p, i) + j]]

Ops(calls) == [j \in 1..Len(calls) |-> calls[j].op]

\* the mutation calls made on p since its last diff
Pending(p) ==
    LET from == IF diffs[p] = <<>> THEN 0 ELSE diffs[p][Len(diffs[p])].upto
    IN  [j \in 1..(Len(log[p]) - from) |-> log[p][from + j]]

\* the shape of an operation: Add-card, Set, Delete-card, Drop-page
OpKind(op) ==
    IF op.v = <<>> THEN "drop"
    ELSE IF DictHas(op.v, <<"d">>) THEN "add"
    ELSE IF DictHas(op.v, <<"v">>) THEN "set"
    ELSE IF DictHas(op.v, <<"k">>) /\ Len(op.v) = 1 THEN "delete"
    ELSE "other"

CallKind(call) ==
    CASE call \in {"add", "__setitem__"} -> "add"
      [] call \in {"setattr", "setitem"} -> "set"
      [] call = "del page[]" -> "delete"
      [] call = "drop" -> "drop"

\* C1: the last diff a page returned lists exactly one operation per mutation
\* call made since the diff before it, in the order of the calls, each
\* operation of the shape of its call (add, set, delete, drop).
C1_DiffKeepsCallOrder ==
    \A p \in PageIds :
        diffs[p] # <<>> =>
            LET calls == Calls(p, Len(diffs[p])) IN
            /\ diffs[p][Len(diffs[p])].text = DiffText(Ops(calls))
            /\ \A j \in 1..Len(calls) : OpKind(calls[j].op) = CallKind(calls[j].call)

\* C1 witness: a diff was returned after add, Ref assignment, delete
C1_Witness ==
    \E p \in PageIds :
        /\ diffs[p] # <<>>
        /\ LET calls == Calls(p, Len(diffs[p])) IN
           /\ Len(calls) = 3
           /\ calls[1].call = "add" /\ calls[2].call = "setattr" /\ calls[3].call = "del page[]"

\* every diff holds the operations logged since the diff before it, and the
\* buffer holds the operations logged since the last diff
Conserved ==
    \A p \in PageIds :
        /\ \A i \in 1..Len(diffs[p]) :
              /\ diffs[p][i].upto > From(p, i)
              /\ diffs[p][i].text = DiffText(Ops(Calls(p, i)))
        /\ BufferOps(p) = Ops(Pending(p))

\* a step in which _diff returned a diff of page p
Diffed(p) == Len(diffs'[p]) = Len(diffs[p]) + 1

\* C2: flush is all-or-nothing.  The diffs returned so far, followed by the
\* buffer, are the tracked operations, none lost, repeated or split; a step
\* that returns a diff takes every buffered operation and leaves the buffer
\* empty; a flush right after a flush that returned a diff returns None.
C2_FlushAllOrNothing ==
    /\ []Conserved
    /\ [][\A p \in PageIds :
            /\ Diffed(p) =>
                  /\ diffs'[p][Len(diffs'[p])].text = DiffText(BufferOps(p))
                  /\ pages'[p]._changes = <<>>
            /\ (ret.call = "flush" /\ ret.exc = "none" /\ ret.v # PyNone /\ ret'.call = "flush")
                  => ret' = Returned("flush", PyNone)]_vars

\* C2 witness: two diffs returned and one operation pending
C2_Witness ==
    \E p \in PageIds : Len(diffs[p]) = 2 /\ Len(Buffer(p)) = 1 /\ Len(log[p]) = 3

\* C3: a flush of an empty buffer returns None and changes nothing, so that
\* repeating it has the same result in the same state.
C3_EmptyFlushIsNoOp ==
    [][\A p \in PageIds :
          (Buffer(p) = <<>> /\ ret'.call = "flush")
              => /\ ret' = Returned("flush", PyNone)
                 /\ UNCHANGED <<pages, heap, sent, awaiting, log, diffs>>]_vars

\* C3 witness: a flush returned None on a page flushed before
C3_Witness ==
    \E p \in PageIds :
        ret = Returned("flush", PyNone) /\ Buffer(p) = <<>> /\ Len(diffs[p]) = 1 /\ diffs[p][1].tx = 0

\* the transmission tx carries url and the diff text
Carries(tx, url, text) ==
    /\ tx.url = url
    /\ tx.via = "patch" => tx.data = text
    /\ tx.via = "ws" => tx.data = <<"*", " ">> \o url \o <<" ">> \o text

\* C4: a save with an empty buffer transmits nothing, a save with a
\* non-empty buffer makes exactly one transmission, carrying the page's url
\* and the diff of the buffered operations.
C4_SaveSendsIffPending ==
    [][\A p \in PageIds :
          ret'.call = "save" =>
              IF Buffer(p) = <<>>
              THEN sent' = sent
              ELSE /\ Len(sent') = Len(sent) + 1
                   /\ Carries(sent'[Len(sent')], pages[p].url, DiffText(BufferOps(p)))]_vars

MutationCalls == {"add", "__setitem__", "setattr", "setitem"}

\* C5: a mutation call (add, page[k] = card, Ref assignment) that raises
\* leaves the buffer, and the dicts its operations refer to, as they were.
C5_RejectedMutationKeepsBuffer ==
    [][(ret'.call \in MutationCalls /\ ret'.exc # "none")
          => /\ pages' = pages
             /\ heap' = heap
             /\ log' = log]_vars

\* C5 witness: an add was rejected while an operation was pending
C5_Witness ==
    \E p \in PageIds :
        ret.call \in {"add", "__setitem__"} /\ ret.exc = "ValueError" /\ Buffer(p) # <<>>

\* C6: a Page.save whose request fails raises ServiceError after exactly one
\* request, with the buffer already empty; and a diff transmitted later holds
\* only operations tracked after the failed diff was made.
C6_FailedSaveDropsDiff ==
    /\ [][\A p \in PageIds :
            (ret'.call = "save" /\ ret'.exc = "ServiceError")
                => /\ Buffer(p) # <<>>
                   /\ pages'[p]._changes = <<>>
                   /\ Len(sent') = Len(sent) + 1
                   /\ sent'[Len(sent')].status # 200]_vars
    /\ [](\A p \in PageIds : \A i, j \in 1..Len(diffs[p]) :
            (i < j /\ diffs[p][i].tx # 0 /\ sent[diffs[p][i].tx].status = 500 /\ diffs[p][j].tx # 0)
                => /\ From(p, j) >= diffs[p][i].upto
                   /\ Carries(sent[diffs[p][j].tx], pages[p].url, DiffText(Ops(Calls(p, j)))))

\* C6 witness: a save failed, and a later save of the page transmitted a diff
C6_Witness ==
    \E p \in PageIds :
        /\ Len(diffs[p]) = 2
        /\ diffs[p][1].tx # 0 /\ sent[diffs[p][1].tx].status = 500
        /\ diffs[p][2].tx # 0

\* the properties of the card of a logged add, as the caller passed them
ArgProps(e) == IF e.arg.t = "dumpable" THEN e.arg.v.v ELSE e.arg.v

Tilde(k) == <<"~">> \o k

\* the Add-card operation of the logged add e is as C7 says
AddOpAsClaimed(e) ==
    LET props == ArgProps(e)
        P == DataItems(props)
        d == DictGet(e.op.v, <<"d">>).v
    IN  /\ \A i \in 1..Len(P) : ~DictHas(d, P[i][1])
        /\ \A i \in 1..Len(P) : DictHas(d, Tilde(P[i][1])) /\ DictGet(d, Tilde(P[i][1])) = PyInt(i - 1)
        /\ \A j \in 1..Len(props) :
              ~IsData(props[j][2]) => DictHas(d, props[j][1]) /\ DictGet(d, props[j][1]) = props[j][2]
        /\ DictHas(e.op.v, <<"b">>) <=> Len(P) > 0
        /\ Len(P) > 0 => DictGet(e.op.v, <<"b">>) = PyList([i \in 1..Len(P) |-> Data_dump(P[i][2])])

LoggedAdds == {e \in UNION {{log[p][j] : j \in 1..Len(log[p])} : p \in PageIds} : CallKind(e.call) = "add"}

\* C7 as claimed: every add tracks an operation whose d has no Data property
\* pi, has ~pi = i-1, keeps the other properties, and has b = the encodings,
\* present iff there is a Data property.
C7_AddDisplacesData == \A e \in LoggedAdds : AddOpAsClaimed(e)

\* no property of the card is named ~p for a property p that holds a Data
NoTildeClash(props) == \A i \in 1..Len(DataItems(props)) : ~DictHas(props, Tilde(DataItems(props)[i][1]))

\* C7 amended: the same, for a card none of whose properties is named ~pi.
C7_AddDisplacesDataNoClash == \A e \in LoggedAdds : NoTildeClash(ArgProps(e)) => AddOpAsClaimed(e)

\* C7 witness: a card with two Data properties was added
C7_Witness == \E e \in LoggedAdds : Len(DataItems(ArgProps(e))) = 2 /\ NoTildeClash(ArgProps(e))

SetCalls == {"setattr", "setitem"}

\* C8: a Ref assignment of a Data raises and appends nothing, whatever the key.
C8_DataAssignmentRaises ==
    [][\A p \in PageIds : \A self \in Roots(p, WideCardKeys), key \in RefKeys, call \in SetCalls :
          \A value \in {v \in RefValues : IsData(v)} :
              (ret'.call = call /\ Ref_set(self, key, value, call, MaxRefOps))
                  => ret'.exc # "none" /\ ret'.v = PyNone /\ pages' = pages /\ log' = log]_vars

\* C8 witness: an assignment of a Data was rejected while an operation was pending
C8_Witness ==
    \E p \in PageIds : ret.call \in SetCalls /\ ret.exc = "ValueError" /\ Buffer(p) # <<>>

SpaceKeys == {k \in RefKeys : _is_str(k) /\ HasSpace(k.v)}

\* C9 as claimed: with a key containing a space, navigation and assignment
\* raise KeyError, return no Ref and append nothing.
C9_SpaceKeyRaisesKeyError ==
    [][\A p \in PageIds : \A self \in Roots(p, WideCardKeys), key \in SpaceKeys :
          /\ \A call \in {"getattr", "getitem"} :
                (ret'.call = call /\ Ref_get(self, key, call))
                    => ret'.exc = "KeyError" /\ ret'.v = PyNone /\ pages' = pages
          /\ \A call \in SetCalls, value \in RefValues :
                (ret'.call = call /\ Ref_set(self, key, value, call, MaxRefOps))
                    => ret'.exc = "KeyError" /\ ret'.v = PyNone /\ pages' = pages /\ log' = log]_vars

\* C9 amended: the same, except that the assignment of a Data raises the
\* ValueError of the Data test, which comes before the key is examined.
C9_SpaceKeyRaises ==
    [][\A p \in PageIds : \A self \in Roots(p, WideCardKeys), key \in SpaceKeys :
          /\ \A call \in {"getattr", "getitem"} :
                (ret'.call = call /\ Ref_get(self, key, call))
                    => ret'.exc = "KeyError" /\ ret'.v = PyNone /\ pages' = pages
          /\ \A call \in SetCalls, value \in RefValues :
                (ret'.call = call /\ Ref_set(self, key, value, call, MaxRefOps))
                    => /\ ret'.exc = IF IsData(value) THEN "ValueError" ELSE "KeyError"
                       /\ ret'.v = PyNone /\ pages' = pages /\ log' = log]_vars

\* C9 witness: ref.key with a space in the key raised while an operation was pending
C9_Witness ==
    \E p \in PageIds : ret = Raised("getattr", "KeyError") /\ Buffer(p) # <<>>

\* neither a primitive, nor a sequence of primitives, nor dump-capable
InvalidValue(v) == ~_is_primitive(v) /\ ~(_is_list(v) /\ _are_primitives(v)) /\ ~_can_dump(v)

\* C10: a Ref assignment of a value that is neither a primitive, a sequence
\* of primitives nor dump-capable raises and appends no Set operation.
C10_InvalidValueRaises ==
    [][\A p \in PageIds : \A self \in Roots(p, WideCardKeys), key \in RefKeys, call \in SetCalls :
          \A value \in {v \in RefValues : InvalidValue(v)} :
              (ret'.call = call /\ Ref_set(self, key, value, call, MaxRefOps))
                  => ret'.exc # "none" /\ pages' = pages /\ log' = log]_vars

----------------------------------------------------------------------------
(***************************************************************************)
(* SpecKeys: the card key of add, page[key] = card, page[key] and          *)
(* del page[key] drawn from keys of every kind, the card from mappings,    *)
(* dump-capable objects and other values.                                  *)
(***************************************************************************)
EmptyKey == PyStr(<<>>)

KeyInputs == {Chr("c"), EmptyKey, SpaceKey, PyInt(5), PyNone}

KeyCards ==
    { PyDict(<<>>), PyInt(5), PyDumpable(Dict1(<<"y">>, Data(Fields, 0, PyNone))),
      PyDumpable(PyInt(1)) }

NextKeys ==
    \/ \E p \in PageIds, key \in KeyInputs, card \in KeyCards, call \in {"add", "__setitem__"} :
            PageBase_add(p, key, card, call, MaxKeyOps)
    \/ \E p \in PageIds, key \in KeyInputs : PageBase_delitem(p, key, MaxKeyOps)
    \/ \E p \in PageIds, key \in KeyInputs : PageBase_getitem(p, key)
    \/ \E p \in PageIds : \E self \in Roots(p, KeyInputs) :
            Ref_set(self, Chr("f"), PyInt(5), "setattr", MaxKeyOps)
    \/ \E p \in PageIds : Flush(p)

SpecKeys == Init /\ [][NextKeys]_vars

\* a non-empty str
NonEmptyStr(key) == _is_str(key) /\ Len(key.v) > 0

\* a mapping, or an object whose dump yields a mapping
ValidCard(card) == IsDict(card) \/ (_can_dump(card) /\ IsDict(CallDump(card)))

\* C11: add(key, card) raises and tracks nothing when key is not a non-empty
\* str or card is neither a mapping nor an object whose dump yields a
\* mapping; otherwise it succeeds and tracks exactly one Add-card operation.
C11_AddValidatesKeyAndCard ==
    [][\A p \in PageIds, key \in KeyInputs, card \in KeyCards, call \in {"add", "__setitem__"} :
          (ret'.call = call /\ PageBase_add(p, key, card, call, MaxKeyOps))
              => IF ~NonEmptyStr(key) \/ ~ValidCard(card)
                 THEN ret'.exc # "none" /\ pages' = pages /\ log' = log
                 ELSE /\ ret'.exc = "none"
                      /\ Len(pages'[p]._changes) = Len(pages[p]._changes) + 1
                      /\ OpKind(pages'[p]._changes[Len(pages'[p]._changes)]) = "add"]_vars

\* s.split(' ')
RECURSIVE Split(_)
Split(s) ==
    IF ~HasSpace(s) THEN <<s>>
    ELSE LET i == CHOOSE i \in 1..Len(s) : s[i] = " " /\ \A j \in 1..(i - 1) : s[j] # " "
         IN  <<SubSeq(s, 1, i - 1)>> \o Split(SubSeq(s, i + 1, Len(s)))

\* the k of an operation that has one
OpKey(op) == DictGet(op.v, <<"k">>)

\* C19: in every buffer the card key of each Add-card and Delete-card
\* operation contains no space, and the path of the Set operation tracked by
\* page[ck].key = value splits on the separator into exactly ck, key.
C19_TrackedKeysSpaceFree ==
    /\ [](\A p \in PageIds : \A j \in 1..Len(Buffer(p)) :
              (OpKind(BufferOps(p)[j]) \in {"add", "delete"} /\ _is_str(OpKey(BufferOps(p)[j])))
                  => ~HasSpace(OpKey(BufferOps(p)[j]).v))
    /\ [][\A p \in PageIds, ck \in KeyInputs :
            (/\ PageGet(p, ck).exc = "none"
             /\ ret'.call = "setattr"
             /\ Ref_set(PageGet(p, ck).v, Chr("f"), PyInt(5), "setattr", MaxKeyOps))
                => Split(OpKey(pages'[p]._changes[Len(pages'[p]._changes)]).v) = <<ck.v, <<"f">>>>]_vars

LoggedDeletes == {e \in UNION {{log[p][j] : j \in 1..Len(log[p])} : p \in PageIds} : e.call = "del page[]"}

\* the keys of a dict, in order
DictKeys(d) == [i \in 1..Len(d) |-> d[i][1]]

\* C20: a delete tracks an operation with k only; every add, the add of an
\* empty mapping included, tracks an operation that has a d; no operation
\* tracked by an add is the operation of a delete.
C20_DeleteDiffersFromAdd ==
    /\ \A e \in LoggedDeletes : DictKeys(e.op.v) = << <<"k">> >>
    /\ \A e \in LoggedAdds :
          /\ DictHas(e.op.v, <<"d">>)
          /\ \A key \in KeyInputs : e.op # Dict1(<<"k">>, key)
          /\ \A f \in LoggedDeletes : e.op # f.op

\* C20 witness: a card with an empty mapping was added
C20_Witness ==
    \E e \in LoggedAdds : e.arg = PyDict(<<>>) /\ e.op = Dict2(<<"k">>, Chr("c"), <<"d">>, PyDict(<<>>))

\* a diff of page p that held a Drop-page operation has been returned
DropFlushed(p) ==
    \E i \in 1..Len(diffs[p]) : \E j \in 1..Len(Calls(p, i)) : Calls(p, i)[j].call = "drop"

\* C12: drop appends exactly one Drop-page operation, the empty object; and
\* once a diff holding a Drop-page operation has been returned, no call on
\* that page appends an operation.
C12_NoMutationAfterDrop ==
    [][\A p \in PageIds :
          /\ (ret'.call = "drop" /\ log'[p] # log[p])
                => pages'[p]._changes = Append(pages[p]._changes, PyDict(<<>>))
          /\ DropFlushed(p)
                => log'[p] = log[p] /\ Len(pages'[p]._changes) <= Len(pages[p]._changes)]_vars

----------------------------------------------------------------------------
(***************************************************************************)
(* SpecData: Data descriptors made by Data(...) and by data(...), over     *)
(* fields, sizes of both signs and initial data of every kind, and their   *)
(* dump.                                                                   *)
(***************************************************************************)
\* s.strip().split() for a str whose only whitespace is the space
StripSplit(s) ==
    LET words == SelectSeq(Split(s), LAMBDA w : w # <<>>)
    IN  PyList([i \in 1..Len(words) |-> PyStr(words[i])])

\* src: data(fields, size, rows) with pack=False; [exc, v]
data(fields, size, rows) ==
    IF _is_str(fields) /\ StripSplit(fields.v).v = <<>> THEN Raised("data", "ValueError")
    ELSE LET fs == IF _is_str(fields) THEN StripSplit(fields.v) ELSE fields IN
         IF ~_is_list(fs) THEN Raised("data", "ValueError")
         ELSE IF Len(fs.v) = 0 THEN Raised("data", "ValueError")
         ELSE IF \E i \in 1..Len(fs.v) : ~_is_str(fs.v[i]) \/ fs.v[i].v = <<>>
              THEN Raised("data", "ValueError")
         ELSE IF Truthy(rows) /\ rows.t \notin {"list", "dict"} THEN Raised("data", "ValueError")
         ELSE IF ~_is_int(size) THEN Raised("data", "ValueError")
         ELSE Returned("data", Data(fs, size.v, rows))

\* a call of data(fields, size, rows)
data_call(fields, size, rows) ==
    /\ ret' = data(fields, size, rows)
    /\ UNCHANGED <<pages, heap, sent, awaiting, log, diffs>>

\* src: Data.__init__; a call of Data(fields, size, data)
Data_init(fields, size, d) ==
    /\ ret' = Returned("Data", Data(fields, size, d))
    /\ UNCHANGED <<pages, heap, sent, awaiting, log, diffs>>

\* a call of dump() on the Data last made
Data_dump_call ==
    /\ IsData(ret.v)
    /\ ret' = Returned("dump", Data_dump(ret.v))
    /\ UNCHANGED <<pages, heap, sent, awaiting, log, diffs>>

Row == PyList(<<PyInt(1), PyInt(2)>>)

DataFields == {Fields, PyList(<<Chr("a")>>), PyStr(<<"a", " ", "b">>), PyStr(<<" ">>), PyList(<<>>), PyInt(5)}

DataSizes == {PyInt(n) : n \in (-MaxSize)..MaxSize} \cup {Chr("3")}

DataRows == {PyNone, PyList(<<>>), PyList(<<Row>>), PyDict(<<>>), Dict1(<<"k">>, Row), PyInt(5)}

NextData ==
    \/ \E fields \in DataFields, size \in DataSizes, rows \in DataRows : data_call(fields, size, rows)
    \/ \E fields \in {Fields, PyList(<<Chr("a")>>)}, size \in (-MaxSize)..MaxSize,
          d \in {r \in DataRows : r.t \in {"NoneType", "list", "dict"}} : Data_init(fields, size, d)
    \/ Data_dump_call

SpecData == Init /\ [][NextData]_vars

\* the key of the outer mapping of an encoding
Shape(enc) == enc.v[1][1]

\* C13: a Data with no initial data, fields F and size n encodes as
\* {m: {f: F}} when n = 0, as {f: {f: F, n: n}} when n > 0 and as
\* {c: {f: F, n: -n}} when n < 0.
C13_EncodingWithoutData ==
    [][(IsData(ret.v) /\ ret.v.data = PyNone /\ ret'.call = "dump") =>
          LET F == ret.v.fields
              n == ret.v.size
          IN  /\ n = 0 => ret'.v = PyDict(<< <<<<"m">>, PyDict(<< <<<<"f">>, F>> >>)>> >>)
              /\ n > 0 => ret'.v = PyDict(<< <<<<"f">>, PyDict(<< <<<<"f">>, F>>, <<<<"n">>, PyInt(n)>> >>)>> >>)
              /\ n < 0 => ret'.v = PyDict(<< <<<<"c">>, PyDict(<< <<<<"f">>, F>>, <<<<"n">>, PyInt(0 - n)>> >>)>> >>)
              /\ (F = Fields /\ n = 0) =>
                    JsonText(ret'.v, heap) = <<"{", "\"", "m", "\"", ":", "{", "\"", "f", "\"", ":", "[",
                                               "\"", "a", "\"", ",", "\"", "b", "\"", "]", "}", "}">>]_vars

\* C13 witness: a circular Data without initial data was dumped
C13_Witness ==
    ret = Returned("dump", PyDict(<< <<<<"c">>, PyDict(<< <<<<"f">>, Fields>>, <<<<"n">>, PyInt(MaxSize)>> >>)>> >>))

\* C14: the encoding of every Data, with or without initial data, is keyed m
\* iff size = 0, f iff size > 0, c iff size < 0.
C14_ShapeFollowsSize ==
    [][(IsData(ret.v) /\ ret'.call = "dump") =>
          /\ Shape(ret'.v) = <<"m">> <=> ret.v.size = 0
          /\ Shape(ret'.v) = <<"f">> <=> ret.v.size > 0
          /\ Shape(ret'.v) = <<"c">> <=> ret.v.size < 0]_vars

----------------------------------------------------------------------------
(***************************************************************************)
(* Navigation from page[c] through string and integer keys, and            *)
(* assignment through the Ref reached.                                     *)
(***************************************************************************)
\* the Ref reached from self by self[k1]...[kn]
RECURSIVE Nav(_, _)
Nav(self, ks) == IF ks = <<>> THEN self ELSE Nav(RefGet(self, Head(ks), "getitem").v, Tail(ks))

KeySeqs(NK, n) == UNION {[1..m -> NK] : m \in 0..n}

\* the Refs reached from page[c], c in CK, by at most n navigations over the keys NK
Refs(p, CK, NK, n) == {Nav(r, ks) : r \in Roots(p, CK), ks \in KeySeqs(NK, n)}

FieldKey == PyStr(<<"f", "i", "e", "l", "d">>)

ValidNavKeys == {FieldKey, PyInt(12)}

NavValues == {PyInt(5), PyList(<<PyInt(1), Chr("s")>>), PyDumpable(PyInt(7))}

\* SpecPath: assignment through every Ref within MaxDepth of page[c]
NextPath ==
    \/ \E p \in PageIds : \E self \in Refs(p, CardKeys, ValidNavKeys, MaxDepth),
              key \in ValidNavKeys, value \in NavValues, call \in {"setattr", "setitem"} :
            Ref_set(self, key, value, call, MaxPathOps)
    \/ \E p \in PageIds : Flush(p)

SpecPath == Init /\ [][NextPath]_vars

\* SpecNav: navigation from every Ref within MaxDepth of page[c], next to
\* the mutations, diff extraction and save of the page
NextNav ==
    \/ \E p \in PageIds, key \in WideCardKeys : PageBase_getitem(p, key)
    \/ \E p \in PageIds : \E self \in Refs(p, CardKeys, ValidNavKeys, MaxDepth),
              key \in ValidNavKeys \cup {SpaceKey}, call \in {"getattr", "getitem"} :
            Ref_get(self, key, call)
    \/ \E p \in PageIds : \E self \in Roots(p, CardKeys), key \in NavKeys :
            Ref_set(self, key, PyInt(5), "setattr", MaxNavOps)
    \/ \E p \in PageIds, key \in CardKeys, card \in Cards : PageBase_add(p, key, card, "add", MaxNavOps)
    \/ \E p \in PageIds, key \in CardKeys : PageBase_delitem(p, key, MaxNavOps)
    \/ \E p \in PageIds : PageBase_drop(p, MaxNavOps)
    \/ \E p \in PageIds : Flush(p)
    \/ \E p \in PageIds, status \in Statuses : Page_save(p, status)
    \/ \E p \in PageIds : AsyncPage_save(p)
    \/ SendDone

SpecNav == Init /\ [][NextNav]_vars

\* a key as a path segment: a str as it is, an int in decimal
Segment(k) == IF _is_str(k) THEN k.v ELSE IntStr(k.v)

\* c, k1, ..., kn, k joined by single spaces
Path(c, ks, k) == JoinWith(<<" ">>, <<c.v>> \o [i \in 1..Len(ks) |-> Segment(ks[i])] \o <<Segment(k)>>)

\* C15: an assignment of a value at key k through the Ref reached from
\* page[c] by the keys k1..kn appends exactly the Set operation
\* {k: "c k1 ... kn k", v: dump(value)}; and a buffer holding only the
\* operation of page["c"].field = 5 flushes as {"d":[{"k":"c field","v":5}]}.
C15_SetOpCarriesPath ==
    /\ [][\A p \in PageIds, c \in CardKeys, ks \in KeySeqs(ValidNavKeys, MaxDepth), k \in ValidNavKeys,
             value \in NavValues, call \in SetCalls :
            (ret'.call = call /\ Ref_set(Nav(PageGet(p, c).v, ks), k, value, call, MaxPathOps))
                => pages'[p]._changes =
                      Append(pages[p]._changes, Dict2(<<"k">>, PyStr(Path(c, ks, k)), <<"v">>, _dump(value)))]_vars
    /\ [](\A p \in PageIds :
            (/\ Len(log[p]) > 0
             /\ log[p][Len(log[p])].arg = PyInt(5)
             /\ Len(Buffer(p)) = 1
             /\ OpKey(Buffer(p)[1]) = PyStr(<<"c", " ", "f", "i", "e", "l", "d">>))
                => _diff(pages, p, heap).v =
                      PyStr(<<"{", "\"", "d", "\"", ":", "[", "{", "\"", "k", "\"", ":", "\"", "c", " ", "f", "i", "e",
                              "l", "d", "\"", ",", "\"", "v", "\"", ":", "5", "}", "]", "}">>))

\* C15 witness: page["c"][12].field = 5 is in the buffer
C15_Witness ==
    \E p \in PageIds :
        /\ Len(Buffer(p)) = 1
        /\ Buffer(p)[1] = Dict2(<<"k">>, PyStr(<<"c", " ", "1", "2", " ", "f", "i", "e", "l", "d">>), <<"v">>, PyInt(5))

NavCalls == {"page[]", "getattr", "getitem"}

\* C16: page[key], ref.child and ref[child] change neither a buffer nor what
\* was transmitted, and return a Ref of the receiver's page whose path is the
\* receiver's path followed by the key; only assignment, add, delete and
\* drop append to a buffer.
C16_NavigationIsPure ==
    [][/\ ret'.call \in NavCalls =>
             /\ UNCHANGED <<pages, heap, sent, awaiting, log, diffs>>
             /\ ret'.exc = "none" => IsRef(ret'.v)
       /\ \A p \in PageIds : \A self \in Refs(p, CardKeys, ValidNavKeys, MaxDepth),
             key \in ValidNavKeys, call \in {"getattr", "getitem"} :
             (ret'.call = call /\ Ref_get(self, key, call))
                 => /\ ret'.v.page = self.page
                    /\ ret'.v.key = self.key \o <<" ">> \o Segment(key)
                    /\ ret'.v # self
       /\ \A p \in PageIds :
             Len(pages'[p]._changes) > Len(pages[p]._changes)
                 => ret'.call \in {"add", "__setitem__", "setattr", "setitem", "del page[]", "drop"}]_vars

\* C16 witness: navigation returned a Ref while an operation was pending
C16_Witness ==
    \E p \in PageIds :
        /\ ret = Returned("getitem", Ref(p, <<"c", " ", "f", "i", "e", "l", "d", " ", "1", "2">>))
        /\ Buffer(p) # <<>>

----------------------------------------------------------------------------
(***************************************************************************)
(* SpecTwo: two Page instances obtained from site[url], for the same url   *)
(* or for two urls, used in any interleaving; the caller passes the same   *)
(* dict object as card to both.                                            *)
(***************************************************************************)
OtherUrl == <<"/", "b">>

InitTwo ==
    /\ pages \in {<<Site_getitem(SiteUrl), Site_getitem(SiteUrl)>>,
                  <<Site_getitem(SiteUrl), Site_getitem(OtherUrl)>>}
    /\ heap = <<HeapCard>>
    /\ ret = Returned("init", PyNone)
    /\ sent = <<>>
    /\ awaiting = 0
    /\ log = <<<<>>, <<>>>>
    /\ diffs = <<<<>>, <<>>>>

NextTwo ==
    \/ \E p \in PageIds, key \in CardKeys, card \in Cards : PageBase_add(p, key, card, "add", MaxTwoOps)
    \/ \E p \in PageIds, key \in CardKeys : PageBase_delitem(p, key, MaxTwoOps)
    \/ \E p \in PageIds : \E self \in Roots(p, CardKeys), key \in NavKeys :
            Ref_set(self, key, PyInt(5), "setattr", MaxTwoOps)
    \/ \E p \in PageIds : Flush(p)
    \/ \E p \in PageIds, status \in Statuses : Page_save(p, status)

SpecTwo == InitTwo /\ [][NextTwo]_vars

\* a call on page p
PageStep(p) ==
    \/ \E key \in CardKeys, card \in Cards : PageBase_add(p, key, card, "add", MaxTwoOps)
    \/ \E key \in CardKeys : PageBase_delitem(p, key, MaxTwoOps)
    \/ \E self \in Roots(p, CardKeys), key \in NavKeys : Ref_set(self, key, PyInt(5), "setattr", MaxTwoOps)
    \/ Flush(p)
    \/ \E status \in Statuses : Page_save(p, status)

\* C17: a call on one Page instance leaves the buffer of every other
\* instance as it was, the operations it holds included; and every diff of
\* an instance holds exactly the operations tracked through that instance.
C17_BuffersArePrivate ==
    /\ [][\A p \in PageIds, q \in PageIds :
            (p # q /\ PageStep(p))
                => /\ pages'[q] = pages[q]
                   /\ BufferOps(q)' = BufferOps(q)
                   /\ log'[q] = log[q]
                   /\ diffs'[q] = diffs[q]]_vars
    /\ []Conserved

\* C17 witness: the same card was added to two pages for the same url, one
\* instance has flushed and the other holds its operation
C17_Witness ==
    /\ Len(pages) = 2
    /\ pages[1].url = pages[2].url
    /\ Len(log[1]) = 1 /\ log[1][1].call = "add" /\ Len(diffs[1]) = 1
    /\ Len(log[2]) = 1 /\ log[2][1].call = "add" /\ Len(Buffer(2)) = 1

----------------------------------------------------------------------------
(***************************************************************************)
(* SpecAsync: one AsyncPage used by the coroutines of one event loop.  A   *)
(* step is what a coroutine does between two suspension points; the only   *)
(* suspension point is the await of ws.send in save, so mutations and      *)
(* saves of other coroutines run while sends are in flight.                *)
(***************************************************************************)
AsyncValues == {PyInt(5), NaN}

InitAsync ==
    /\ pages = <<AsyncSite_getitem(AsyncSiteUrl)>>
    /\ heap = <<HeapCard>>
    /\ ret = Returned("init", PyNone)
    /\ sent = <<>>
    /\ awaiting = 0
    /\ log = <<<<>>>>
    /\ diffs = <<<<>>>>

NextAsync ==
    \/ \E p \in PageIds, key \in CardKeys : PageBase_delitem(p, key, MaxAsyncOps)
    \/ \E p \in PageIds : \E self \in Roots(p, CardKeys), key \in NavKeys, value \in AsyncValues :
            Ref_set(self, key, value, "setattr", MaxAsyncOps)
    \/ \E p \in PageIds : AsyncPage_save(p)
    \/ SendDone

SpecAsync == InitAsync /\ [][NextAsync]_vars

\* the text `* <url> <diff>`
Message(url, text) == <<"*", " ">> \o url \o <<" ">> \o text

\* the encoder accepts the buffer of page p
Encodes(p) == JsonError(PyList(Buffer(p)), heap) = "none"

\* what C18 says besides the sending of each save: the completion of a send
\* waits for nothing and changes nothing, a message handed to the channel is
\* never altered, every diff is carried by its own message and holds exactly
\* the operations tracked since the diff before it, and the operations
\* tracked since the last diff are in the buffer
InFlightKept ==
    /\ [](awaiting > 0 => ENABLED SendDone)
    /\ [][awaiting' < awaiting => UNCHANGED <<pages, heap, sent, log, diffs>>]_vars
    /\ [][Len(sent') >= Len(sent) /\ \A i \in 1..Len(sent) : sent'[i] = sent[i]]_vars
    /\ [](\A p \in PageIds :
            /\ \A i \in 1..Len(diffs[p]) :
                  /\ diffs[p][i].tx \in 1..Len(sent)
                  /\ sent[diffs[p][i].tx].via = "ws"
                  /\ sent[diffs[p][i].tx].data = Message(pages[p].url, DiffText(Ops(Calls(p, i))))
                  /\ \A j \in 1..Len(diffs[p]) : i < j => diffs[p][i].tx < diffs[p][j].tx
            /\ Len(sent) = Len(diffs[p]))
    /\ []Conserved

\* C18 as claimed: every save with a non-empty buffer sends exactly one
\* message `* <url> <diff>` and empties the buffer in the same step; and the
\* operations tracked while a send is in flight are kept for later messages.
C18_AsyncSaveSendsOnce ==
    /\ [][\A p \in PageIds :
            (ret'.call = "save" /\ Buffer(p) # <<>>)
                => /\ sent' = Append(sent, ws_send(pages[p].url, DiffText(BufferOps(p))))
                   /\ sent'[Len(sent')].data = Message(pages[p].url, DiffText(BufferOps(p)))
                   /\ pages'[p]._changes = <<>>
                   /\ awaiting' = awaiting + 1]_vars
    /\ InFlightKept

\* C18 amended: the same for every save whose buffer the encoder accepts; a
\* save whose buffer it rejects raises, sends nothing and keeps the buffer.
C18_AsyncSaveSendsOnceIfEncodable ==
    /\ [][\A p \in PageIds :
            (ret'.call = "save" /\ Buffer(p) # <<>>)
                => IF Encodes(p)
                   THEN /\ sent' = Append(sent, ws_send(pages[p].url, DiffText(BufferOps(p))))
                        /\ sent'[Len(sent')].data = Message(pages[p].url, DiffText(BufferOps(p)))
                        /\ pages'[p]._changes = <<>>
                        /\ awaiting' = awaiting + 1
                   ELSE /\ ret'.exc # "none"
                        /\ UNCHANGED <<pages, heap, sent, awaiting, log, diffs>>]_vars
    /\ InFlightKept

\* C18 witness: two sends in flight, the second carrying an operation
\* tracked while the first was in flight
C18_Witness ==
    \E p \in PageIds :
        /\ awaiting = 2
        /\ Len(diffs[p]) = 2
        /\ diffs[p][2].upto > diffs[p][1].upto
        /\ Buffer(p) # <<>>

----------------------------------------------------------------------------
(***************************************************************************)
(* SpecEnc: values the JSON encoder rejects (a non-finite float, a plain   *)
(* object) assigned next to one it accepts, then flush and save.           *)
(***************************************************************************)
EncValues == {PyInt(5), NaN, PyObject}

NextEnc ==
    \/ \E p \in PageIds : \E self \in Roots(p, CardKeys), key \in NavKeys, value \in EncValues :
            Ref_set(self, key, value, "setattr", MaxEncOps)
    \/ \E p \in PageIds : Flush(p)
    \/ \E p \in PageIds, status \in Statuses : Page_save(p, status)
    \/ \E p \in PageIds : AsyncPage_save(p)
    \/ SendDone

SpecEnc == Init /\ [][NextEnc]_vars

\* the exception the encoder raises on the buffer of page p
EncodeError(p) == JsonError(Dict1(<<"d">>, PyList(Buffer(p))), heap)

\* C21: a flush or save of a buffer the encoder rejects raises the encoder's
\* exception and changes nothing: the buffer keeps its operations in their
\* order, nothing is transmitted; and a buffer the encoder rejects stays
\* rejected, so every later flush or save fails in the same way.
C21_FailedEncodingKeepsBuffer ==
    [][\A p \in PageIds :
          EncodeError(p) # "none" =>
              /\ ret'.call \in {"flush", "save"} =>
                    /\ ret' = Raised(ret'.call, EncodeError(p))
                    /\ UNCHANGED <<pages, heap, sent, awaiting, log, diffs>>
              /\ EncodeError(p)' = EncodeError(p)
              /\ SubSeq(pages'[p]._changes, 1, Len(pages[p]._changes)) = pages[p]._changes]_vars

\* C21 witness: a save raised on a buffer of two operations, the first of
\* them holding a non-finite float
C21_Witness ==
    \E p \in PageIds :
        /\ ret = Raised("save", "ValueError")
        /\ Len(Buffer(p)) = 2
        /\ DictGet(Buffer(p)[1].v, <<"v">>) = NaN
        /\ DictGet(Buffer(p)[2].v, <<"v">>) = PyInt(5)

\* a property name beginning with ~
IsTildeName(k) == Len(k) > 0 /\ k[1] = "~"

\* the mapping as the caller first supplied it to add on page p
FirstSupplied(p) == log[p][1].arg.v

\* C22: when the mapping, as first supplied, has no key beginning with ~,
\* every Add-card operation in the buffer that has a marker ~name with
\* index i has a b list of more than i elements, and b[i] is the encoding of
\* the Data first held under name.
C22_NoDanglingMarker ==
    \A p \in PageIds :
        (log[p] # <<>> /\ \A m \in 1..Len(FirstSupplied(p)) : ~IsTildeName(FirstSupplied(p)[m][1]))
            => \A j \in 1..Len(Buffer(p)) :
                  LET op == BufferOps(p)[j].v
                      d == DictGet(op, <<"d">>).v
                  IN  \A m \in 1..Len(d) :
                          IsTildeName(d[m][1]) =>
                              /\ DictHas(op, <<"b">>)
                              /\ Len(DictGet(op, <<"b">>).v) > d[m][2].v
                              /\ DictHas(FirstSupplied(p), Tail(d[m][1]))
                              /\ DictGet(op, <<"b">>).v[d[m][2].v + 1]
                                    = Data_dump(DictGet(FirstSupplied(p), Tail(d[m][1])))

====
